---- MODULE Spec2Model ----
(***************************************************************************)
(* A model of the tic-tac-toe engine of minimax-xo (src/board.js) and of   *)
(* the page that drives it (src/index.js).                                  *)
(*                                                                         *)
(* A position is the record [state, compSymbol, isCompTurn] of a Board     *)
(* object; the fourth field of the object, the cache, is one object shared *)
(* by reference by every board of a session and is a variable of its own,  *)
(* threaded through the recursive calls in the order the code makes them.  *)
(* Arrays are 1-based here: state[y][x] of the code is state[y+1][x+1].    *)
(***************************************************************************)
EXTENDS Integers, Sequences, FiniteSets, TLC

VARIABLES vBoard, cache, pc, last, view, first, optimal

vars == <<vBoard, cache, pc, last, view, first, optimal>>

(***************************************************************************)
(* Program constants and bounds.                                           *)
(***************************************************************************)
\* the page builds a 3x3 table and a 3x3 board
boardSize == 3

\* the engine is called on positions with at most this many empty cells
MaxFree == 4

Symbols == {"X", "O", "E"}

Marks == {"X", "O"}

Idx == 1..boardSize

AllGrids == [Idx -> [Idx -> Symbols]]

\* the array literal the page passes to new Board
emptyGrid == <<<<"E", "E", "E">>, <<"E", "E", "E">>, <<"E", "E", "E">>>>

(***************************************************************************)
(* Board: constructor, lines, winner.                                      *)
(***************************************************************************)
Board(board, compSymbol, isCompTurn) ==
    [state |-> board, compSymbol |-> compSymbol, isCompTurn |-> isCompTurn]

Boards == [state : AllGrids, compSymbol : Marks, isCompTurn : BOOLEAN]

humanSymbol(b) == IF b.compSymbol = "X" THEN "O" ELSE "X"

getRows(b) == b.state

getCols(b) == [x \in Idx |-> [y \in Idx |-> b.state[y][x]]]

getDiags(b) ==
    << [i \in Idx |-> b.state[i][i]],
       [i \in Idx |-> b.state[i][boardSize - i + 1]] >>

\* compares the ends of the line only
getLineWinnerEnds(line) ==
    IF \E i \in 1..Len(line) : line[i] = "E" THEN "E"
    ELSE IF line[Len(line)] = line[1] THEN line[1]
    ELSE "D"

getLineWinner(line) ==
    IF \E i \in 1..Len(line) : line[i] = "E" THEN "E"
    ELSE IF \A i \in 1..Len(line) : line[i] = line[1] THEN line[1]
    ELSE "D"

\* tests for "X" only
isMarkOnlyX(winner) == winner = "X"

\* ["X", "O"].includes(winner)
isMark(winner) == winner \in Marks

\* the for loop over the lines returns at the first line won by X or O
getWinner[b \in Boards] ==
    LET lines == getRows(b) \o getCols(b) \o getDiags(b)
        w == [i \in 1..Len(lines) |-> getLineWinner(lines[i])]
        won == {i \in 1..Len(lines) : isMark(w[i])}
        firstWon == CHOOSE i \in won : \A j \in won : i <= j
    IN  IF won # {} THEN w[firstWon]
        ELSE IF \E i \in 1..Len(lines) : w[i] = "E" THEN "L"
        ELSE "D"

(***************************************************************************)
(* clone and getChildBoards.  The state of a board is an array object the  *)
(* board holds by reference, and newBoard.state[y][x] = ... writes into    *)
(* it; so these two run on a heap: the sequence of the state arrays        *)
(* allocated so far, in which a board object's state is the address of     *)
(* its array.                                                              *)
(***************************************************************************)
\* [...row]: a new array with the cells of the row
copyRow(row) == SubSeq(row, 1, Len(row))

RECURSIVE mapCopyRow(_)
\* state.map(row => [...row])
mapCopyRow(rows) ==
    IF rows = <<>> THEN <<>> ELSE <<copyRow(Head(rows))>> \o mapCopyRow(Tail(rows))

\* the board object holding the grid of b in a state array of its own
alloc(b) == [heap |-> <<b.state>>, board |-> [b EXCEPT !.state = 1]]

\* the position a board object of the heap holds
deref(heap, o) == [o EXCEPT !.state = heap[o.state]]

\* new Board(this.state, ...): the copy shares the state array
cloneShared(heap, o) ==
    [heap |-> heap, board |-> Board(o.state, o.compSymbol, o.isCompTurn)]

\* new Board(newState, this.compSymbol, this.isCompTurn, this.cache)
clone(heap, o) ==
    [heap  |-> Append(heap, mapCopyRow(heap[o.state])),
     board |-> Board(Len(heap) + 1, o.compSymbol, o.isCompTurn)]

\* the loops nested the other way round: x outside, y inside
cellAtColumnMajor(i) == <<((i - 1) % boardSize) + 1, ((i - 1) \div boardSize) + 1>>

\* the cell the nested loops (y outside, x inside) visit in their i-th step
cellAt(i) == <<((i - 1) \div boardSize) + 1, ((i - 1) % boardSize) + 1>>

\* newBoard = clone(); newBoard.state[y][x] = symbol; newBoard.isCompTurn = turn
place(heap, o, c, symbol, turn) ==
    LET newBoard == clone(heap, o)
    IN  [heap  |-> [newBoard.heap EXCEPT ![newBoard.board.state][c[1]][c[2]] = symbol],
         board |-> [newBoard.board EXCEPT !.isCompTurn = turn]]

RECURSIVE childLoop(_, _, _, _, _)
\* the nested y, x loops from cell i on, visiting the cells row by row
childLoop(heap, this, playerSymbol, i, childBoards) ==
    IF i > boardSize * boardSize THEN [heap |-> heap, childBoards |-> childBoards]
    ELSE LET c == cellAt(i)
         IN  IF heap[this.state][c[1]][c[2]] = "E"
             THEN LET p == place(heap, this, c, playerSymbol, ~this.isCompTurn)
                  IN  childLoop(p.heap, this, playerSymbol, i + 1,
                                Append(childBoards, p.board))
             ELSE childLoop(heap, this, playerSymbol, i + 1, childBoards)

RECURSIVE derefAll(_, _)
derefAll(heap, os) ==
    IF os = <<>> THEN <<>> ELSE <<deref(heap, Head(os))>> \o derefAll(heap, Tail(os))

\* one run of getChildBoards on b: the positions returned and the position
\* the receiver holds afterwards
runChildBoards[b \in Boards] ==
    LET a == alloc(b)
        playerSymbol == IF b.isCompTurn THEN b.compSymbol ELSE humanSymbol(b)
        r == childLoop(a.heap, a.board, playerSymbol, 1, <<>>)
    IN  [childBoards |-> derefAll(r.heap, r.childBoards), this |-> deref(r.heap, a.board)]

getChildBoards[b \in Boards] == runChildBoards[b].childBoards

(***************************************************************************)
(* The cache key: state.join(";"), each row rendered by Array.toString,    *)
(* that is, its cells joined by ",".  A string is the sequence of its      *)
(* characters.                                                             *)
(***************************************************************************)
RECURSIVE join(_, _)
join(strs, sep) ==
    IF Len(strs) = 0 THEN <<>>
    ELSE IF Len(strs) = 1 THEN strs[1]
    ELSE strs[1] \o <<sep>> \o join(Tail(strs), sep)

rowString(row) == join([x \in 1..Len(row) |-> <<row[x]>>], ",")

stringState(b) == join([y \in 1..Len(b.state) |-> rowString(b.state[y])], ";")

(***************************************************************************)
(* The cache object: a property table.  The keys the program builds are    *)
(* boardSize row strings separated by ";", each with a symbol at its odd   *)
(* positions; a key is looked up row string by row string, slotOf          *)
(* numbering the row strings, so that two keys name the same property      *)
(* exactly when they are the same string.  A property holds <<>> while it  *)
(* is undefined and <<v>> once cache[key] = v has run.                     *)
(***************************************************************************)
symbolCode(ch) == IF ch = "E" THEN 0 ELSE IF ch = "X" THEN 1 ELSE 2

RECURSIVE slotFrom(_, _)
slotFrom(str, i) ==
    IF i > Len(str) THEN 0
    ELSE symbolCode(str[i]) + 3 * slotFrom(str, i + 2)

slotOf(str) == 1 + slotFrom(str, 1)

rowLength == 2 * boardSize - 1

\* the path of a key in the table
pathOf(key) ==
    [y \in Idx |-> slotOf(SubSeq(key, (y - 1) * (rowLength + 1) + 1,
                                      (y - 1) * (rowLength + 1) + rowLength))]

cachePath[b \in Boards] == pathOf(stringState(b))

tbl(v) == [i \in 1..(3 ^ boardSize) |-> v] @@ <<>>

\* the object literal {} of index.js: no property is defined
emptyCache == tbl(tbl(tbl(<<>>)))

cacheGet(c, k) == c[k[1]][k[2]][k[3]]

\* a store under a key that leaves out the middle row of the grid
cachePutTwoRows(c, k, v) == [c EXCEPT ![k[1]][k[1]][k[3]] = <<v>>]

cachePut(c, k, v) == [c EXCEPT ![k[1]][k[2]][k[3]] = <<v>>]

(***************************************************************************)
(* getScore / forceGetScore.  A call returns its value together with the   *)
(* cache it leaves behind and the number of forceGetScore bodies run so    *)
(* far.                                                                    *)
(***************************************************************************)
Max(S) == CHOOSE m \in S : \A n \in S : n <= m

Min(S) == CHOOSE m \in S : \A n \in S : m <= n

Range(f) == {f[i] : i \in DOMAIN f}

\* if (this.cache[stringState]): undefined and a stored 0 are both falsy
truthy(v) == v # <<>> /\ v[1] # 0

RECURSIVE getScore(_, _), forceGetScore(_, _), mapGetScore(_, _)

\* this.cache[stringState] = score; return score
stored(r, k) ==
    [score |-> r.score, cache |-> cachePut(r.cache, k, r.score), forced |-> r.forced]

getScore(b, mem) ==
    LET k == cachePath[b]
        hit == cacheGet(mem.cache, k)
    IN  IF truthy(hit)
        THEN [score |-> hit[1], cache |-> mem.cache, forced |-> mem.forced]
        ELSE stored(forceGetScore(b, mem), k)

\* the i-th callback of map, run after the callbacks before it
nextScore(boards, i, acc) ==
    IF i > Len(boards) THEN acc ELSE getScore(boards[i], acc)

\* boards.map(board => board.getScore()), left to right over the at most
\* boardSize * boardSize boards
mapGetScore(boards, mem) ==
    LET r1 == nextScore(boards, 1, mem)
        r2 == nextScore(boards, 2, r1)
        r3 == nextScore(boards, 3, r2)
        r4 == nextScore(boards, 4, r3)
        r5 == nextScore(boards, 5, r4)
        r6 == nextScore(boards, 6, r5)
        r7 == nextScore(boards, 7, r6)
        r8 == nextScore(boards, 8, r7)
        r9 == nextScore(boards, 9, r8)
    IN  [scores |-> SubSeq(<<r1.score, r2.score, r3.score, r4.score, r5.score,
                             r6.score, r7.score, r8.score, r9.score>>, 1, Len(boards)),
         cache |-> r9.cache, forced |-> r9.forced]

\* Math.min on either turn
extremeMinOnly(r, isCompTurn) ==
    [cache |-> r.cache, forced |-> r.forced, score |-> Min(Range(r.scores))]

\* Math.max(...scores) on the computer's turn, Math.min(...scores) otherwise
extreme(r, isCompTurn) ==
    [cache |-> r.cache, forced |-> r.forced,
     score |-> IF isCompTurn THEN Max(Range(r.scores)) ELSE Min(Range(r.scores))]

\* the child count added instead of subtracted
winScorePlus(b) == 100 + Len(getChildBoards[b])

\* Win as fast as possible
winScore(b) == 100 - Len(getChildBoards[b])

\* a loss scored without the number of child boards
loseScoreFlat(b) == -100

\* Lose as slowly as possible
loseScore(b) == -100 + Len(getChildBoards[b])

\* Draw as slowly as possible
drawScore(b) == 0 + Len(getChildBoards[b])

forceGetScore(b, mem) ==
    LET winner == getWinner[b]
    IN  CASE winner = b.compSymbol ->
               [score |-> winScore(b), cache |-> mem.cache, forced |-> mem.forced + 1]
          [] winner = humanSymbol(b) ->
               [score |-> loseScore(b), cache |-> mem.cache, forced |-> mem.forced + 1]
          [] winner = "D" ->
               [score |-> drawScore(b), cache |-> mem.cache, forced |-> mem.forced + 1]
          [] OTHER ->
               extreme(mapGetScore(getChildBoards[b],
                                   [score |-> 0, cache |-> mem.cache,
                                    forced |-> mem.forced + 1]),
                       b.isCompTurn)

(***************************************************************************)
(* getNextBestBoardState: Array.find evaluates, child by child, first      *)
(* board.getScore() and then this.getScore(), and stops at the first       *)
(* child for which the two are equal.  The result is a sequence holding    *)
(* the board found, or the empty sequence for undefined.                   *)
(***************************************************************************)
RECURSIVE findBest(_, _, _, _)
findBest(b, boards, i, mem) ==
    IF i > Len(boards) THEN [board |-> <<>>, cache |-> mem.cache, forced |-> mem.forced]
    ELSE LET c == getScore(boards[i], mem)
             t == getScore(b, c)
         IN  IF c.score = t.score
             THEN [board |-> <<boards[i]>>, cache |-> t.cache, forced |-> t.forced]
             ELSE findBest(b, boards, i + 1, t)

\* without the early return on the human's turn
getNextBestBoardStateAnyTurn(b, mem) ==
    IF getWinner[b] = "L" THEN findBest(b, getChildBoards[b], 1, mem)
    ELSE [board |-> <<>>, cache |-> mem.cache, forced |-> mem.forced]

\* the first child board, whatever its score
getNextBestBoardStateFirstChild(b, mem) ==
    IF ~b.isCompTurn THEN [board |-> <<>>, cache |-> mem.cache, forced |-> mem.forced]
    ELSE IF getWinner[b] = "L"
    THEN [board |-> <<getChildBoards[b][1]>>, cache |-> mem.cache, forced |-> mem.forced]
    ELSE [board |-> <<>>, cache |-> mem.cache, forced |-> mem.forced]

getNextBestBoardState(b, mem) ==
    IF ~b.isCompTurn THEN [board |-> <<>>, cache |-> mem.cache, forced |-> mem.forced]
    ELSE IF getWinner[b] = "L" THEN findBest(b, getChildBoards[b], 1, mem)
    ELSE [board |-> <<>>, cache |-> mem.cache, forced |-> mem.forced]

(***************************************************************************)
(* HTMLBoard.render: the texts it leaves in the page.                      *)
(***************************************************************************)
\* resultStrings[key].msg
msg(b, key) ==
    CASE key = b.compSymbol -> "Computer (" \o b.compSymbol \o ")"
      [] key = humanSymbol(b) -> "Human (" \o humanSymbol(b) \o ")"
      [] key = "D" -> "Draw!"
      [] key = "L" -> "Game is ongoing"

\* a prediction that takes only the scores beyond 99 for wins
predictedResultStrict(b, score) ==
    IF score < -99 THEN humanSymbol(b)
    ELSE IF score > 99 THEN b.compSymbol
    ELSE "D"

predictedResult(b, score) ==
    IF score < -50 THEN humanSymbol(b)
    ELSE IF score > 50 THEN b.compSymbol
    ELSE "D"

\* textContent of the cells
tiles(b) ==
    [y \in Idx |-> [x \in Idx |-> IF b.state[y][x] = "E" THEN "" ELSE b.state[y][x]]]

\* the cells and the two message elements before the first render
blankView == [tiles |-> [y \in Idx |-> [x \in Idx |-> ""]], result |-> "", prediction |-> ""]

render(b, mem) ==
    LET r == getScore(b, mem)
    IN  [view |-> [tiles |-> tiles(b), result |-> msg(b, getWinner[b]),
                   prediction |-> msg(b, predictedResult(b, r.score))],
         score |-> r.score, cache |-> r.cache, forced |-> r.forced]

numEmpty(b) == Cardinality({c \in Idx \X Idx : b.state[c[1]][c[2]] = "E"})

noCall == [op |-> "none", ret |-> 0, forced |-> 0]

fresh(mem) == [cache |-> mem, forced |-> 0]

(***************************************************************************)
(* Board specification: the methods of Board that do not touch the cache,  *)
(* called on a board holding any grid.                                     *)
(***************************************************************************)
InitBoard ==
    /\ vBoard \in Boards
    /\ cache = <<>>
    /\ pc = "board"
    /\ last = noCall
    /\ view = blankView
    /\ first = vBoard.isCompTurn
    /\ optimal = TRUE

\* vBoard.getWinner()
CallGetWinner ==
    /\ pc = "board"
    /\ last' = [op |-> "getWinner", ret |-> getWinner[vBoard], forced |-> 0]
    /\ UNCHANGED <<vBoard, cache, pc, view, first, optimal>>

\* vBoard.getChildBoards()
CallGetChildBoards ==
    /\ pc = "board"
    /\ \E r \in {runChildBoards[vBoard]} :
          /\ vBoard' = r.this
          /\ last' = [op |-> "getChildBoards", ret |-> r.childBoards, forced |-> 0]
    /\ UNCHANGED <<cache, pc, view, first, optimal>>

\* vBoard.clone()
CallClone ==
    /\ pc = "board"
    /\ \E a \in {alloc(vBoard)} : \E r \in {clone(a.heap, a.board)} :
          /\ vBoard' = deref(r.heap, a.board)
          /\ last' = [op |-> "clone", ret |-> deref(r.heap, r.board), forced |-> 0]
    /\ UNCHANGED <<cache, pc, view, first, optimal>>

NextBoard == CallGetWinner \/ CallGetChildBoards \/ CallClone

SpecBoard == InitBoard /\ [][NextBoard]_vars

(***************************************************************************)
(* Scoring specification: a session is created with new Board(empty, "X",  *)
(* isCompTurn, {}); alternating play (each ply one element of              *)
(* getChildBoards of an ongoing position) produces the receiver, on which  *)
(* the engine is then called, any number of times, the calls sharing the   *)
(* cache of the session.                                                   *)
(***************************************************************************)
InitScore ==
    /\ first \in BOOLEAN
    /\ vBoard = Board(emptyGrid, "X", first)
    /\ cache = emptyCache
    /\ pc = "play"
    /\ last = noCall
    /\ view = blankView
    /\ optimal = TRUE

\* one ply of alternating play
Play(k) ==
    /\ pc = "play"
    /\ getWinner[vBoard] = "L"
    /\ k \in 1..Len(getChildBoards[vBoard])
    /\ vBoard' = getChildBoards[vBoard][k]
    /\ UNCHANGED <<cache, pc, last, view, first, optimal>>

\* vBoard.getScore()
CallGetScore ==
    /\ pc \in {"play", "call"}
    /\ numEmpty(vBoard) <= MaxFree
    /\ \E r \in {getScore(vBoard, fresh(cache))} :
          /\ cache' = r.cache
          /\ last' = [op |-> "getScore", ret |-> r.score, forced |-> r.forced]
    /\ pc' = "call"
    /\ UNCHANGED <<vBoard, view, first, optimal>>

\* vBoard.getNextBestBoardState()
CallGetNextBestBoardState ==
    /\ pc \in {"play", "call"}
    /\ numEmpty(vBoard) <= MaxFree
    /\ \E r \in {getNextBestBoardState(vBoard, fresh(cache))} :
          /\ cache' = r.cache
          /\ last' = [op |-> "getNextBestBoardState", ret |-> r.board, forced |-> r.forced]
    /\ pc' = "call"
    /\ UNCHANGED <<vBoard, view, first, optimal>>

NextScore ==
    \/ \E k \in 1..(boardSize * boardSize) : Play(k)
    \/ CallGetScore
    \/ CallGetNextBestBoardState

SpecScore == InitScore /\ [][NextScore]_vars

(***************************************************************************)
(* The page.  index.js creates the board of a session and hands it to a    *)
(* new HTMLBoard, whose constructor lets the computer move when it is to   *)
(* move first; the script then renders once, and from then on the click    *)
(* handlers run.                                                           *)
(***************************************************************************)
\* the board kept whatever was found
orElseKeep(found, b) == b

\* found || b, for the result of getNextBestBoardState
orElse(found, b) == IF found = <<>> THEN b ELSE found[1]

\* the board, the reply and the page after the reply was assigned and rendered
replied(board, reply, v) ==
    [board |-> board, reply |-> reply, view |-> v.view,
     score |-> v.score, cache |-> v.cache, forced |-> v.forced]

\* this.vBoard = n || this.vBoard; this.render()
renderReply(b, n) == replied(orElse(n.board, b), n.board, render(orElse(n.board, b), n))

\* this.vBoard = this.vBoard.getNextBestBoardState() || this.vBoard; this.render()
replyAndRender(b, mem) == renderReply(b, getNextBestBoardState(b, mem))

\* newBoard = this.vBoard.clone(); newBoard.state[y][x] = this.vBoard.humanSymbol;
\* newBoard.isCompTurn = true
humanMove(heap, o, x, y) ==
    LET newBoard == clone(heap, o)
    IN  [heap  |-> [newBoard.heap EXCEPT ![newBoard.board.state][y][x] = humanSymbol(o)],
         board |-> [newBoard.board EXCEPT !.isCompTurn = TRUE]]

\* what b.getScore() returns when called in the current state
scoreNow(b) == getScore(b, fresh(cache)).score

childScoresNow(b) ==
    {scoreNow(getChildBoards[b][k]) : k \in 1..Len(getChildBoards[b])}

\* the position board b holds once a method that enumerates its child
\* boards has run on it
afterChildBoards(b, ran) == IF ran THEN runChildBoards[b].this ELSE b

Init ==
    /\ first \in BOOLEAN
    /\ vBoard = Board(emptyGrid, "X", first)
    /\ cache = emptyCache
    /\ pc = "script"
    /\ last = noCall
    /\ view = blankView
    /\ optimal = TRUE

\* new HTMLBoard(new Board(...), tdElements, whoHasWonEl, predictionEl)
NewHTMLBoard ==
    /\ pc = "script"
    /\ IF vBoard.isCompTurn
       THEN \E r \in {replyAndRender(vBoard, fresh(cache))} :
               /\ vBoard' = r.board
               /\ cache' = r.cache
               /\ view' = r.view
               /\ last' = [op |-> "new HTMLBoard", ret |-> r.reply, forced |-> r.forced]
       ELSE /\ last' = [op |-> "new HTMLBoard", ret |-> <<>>, forced |-> 0]
            /\ UNCHANGED <<vBoard, cache, view>>
    /\ pc' = "constructed"
    /\ UNCHANGED <<first, optimal>>

\* ourBoard.render()
Render ==
    /\ pc = "constructed"
    /\ \E r \in {render(vBoard, fresh(cache))} :
          /\ cache' = r.cache
          /\ view' = r.view
          /\ last' = [op |-> "render", ret |-> r.score, forced |-> r.forced,
                       score |-> r.score]
    /\ pc' = "ready"
    /\ UNCHANGED <<vBoard, first, optimal>>

\* a guard that leaves out the test of the clicked cell
acceptsOnTurn(b, x, y) == ~b.isCompTurn /\ getWinner[b] = "L"

\* a guard that leaves out the test of the outcome
acceptsAfterEnd(b, x, y) == b.state[y][x] = "E" /\ ~b.isCompTurn

\* the conditions under which onClick goes on to move
accepts(b, x, y) == b.state[y][x] = "E" /\ ~b.isCompTurn /\ getWinner[b] = "L"

\* the click listener of the cell in row y, column x
onClick(x, y) ==
    /\ pc = "ready"
    /\ IF accepts(vBoard, x, y)
       THEN \E a \in {alloc(vBoard)} :
            \E m \in {humanMove(a.heap, a.board, x, y)} :
            \E v \in {render(deref(m.heap, m.board), fresh(cache))} :
            \E r \in {replyAndRender(deref(m.heap, m.board), v)} :
               /\ vBoard' = r.board
               /\ cache' = r.cache
               /\ view' = r.view
               /\ optimal' = (optimal /\ v.score = Min(childScoresNow(vBoard)))
               /\ last' = [op |-> "onClick", x |-> x, y |-> y, accepted |-> TRUE,
                           this |-> deref(m.heap, a.board),
                           moved |-> deref(m.heap, m.board),
                           movedAfter |-> afterChildBoards(deref(m.heap, m.board),
                                                           r.forced > 0),
                           ret |-> r.reply, forced |-> r.forced,
                           scoreMoved |-> v.score, score |-> r.score]
       ELSE /\ last' = [op |-> "onClick", x |-> x, y |-> y, accepted |-> FALSE,
                        this |-> vBoard, moved |-> <<>>, movedAfter |-> <<>>,
                        ret |-> <<>>, forced |-> 0,
                        scoreMoved |-> last.score, score |-> last.score]
            /\ UNCHANGED <<vBoard, cache, view, optimal>>
    /\ UNCHANGED <<pc, first>>

Next ==
    \/ NewHTMLBoard
    \/ Render
    \/ \E x \in Idx, y \in Idx : onClick(x, y)

Spec == Init /\ [][Next]_vars

(***************************************************************************)
(* The page with a human who keeps playing.  The script runs to its end:   *)
(* the constructor and the first render happen.  While a click can be      *)
(* accepted, one eventually is; this is the premise of the statements      *)
(* about games that are played to their end, not something the code brings *)
(* about.  The two conditions are stated on pc and on vBoard: the          *)
(* constructor and the first render are the steps that change pc, and the  *)
(* accepted clicks are the steps that change vBoard once the page is       *)
(* ready.                                                                  *)
(***************************************************************************)
ScriptStep == pc # "ready" /\ pc' \in {"constructed", "ready"}

AcceptedClick ==
    /\ pc = "ready"
    /\ \E x \in Idx, y \in Idx : accepts(vBoard, x, y)
    /\ vBoard' \in Boards

SpecLive ==
    /\ Spec
    /\ WF_pc(ScriptStep)
    /\ WF_vBoard(AcceptedClick)

(***************************************************************************)
(* Properties of the Board specification.                                  *)
(***************************************************************************)
\* the cells of the eight lines of a 3x3 grid: rows, columns, diagonals
Lines3 ==
    << <<<<1, 1>>, <<1, 2>>, <<1, 3>>>>, <<<<2, 1>>, <<2, 2>>, <<2, 3>>>>,
       <<<<3, 1>>, <<3, 2>>, <<3, 3>>>>, <<<<1, 1>>, <<2, 1>>, <<3, 1>>>>,
       <<<<1, 2>>, <<2, 2>>, <<3, 2>>>>, <<<<1, 3>>, <<2, 3>>, <<3, 3>>>>,
       <<<<1, 1>>, <<2, 2>>, <<3, 3>>>>, <<<<1, 3>>, <<2, 2>>, <<3, 1>>>> >>

\* the lines of grid g all of whose cells hold m
linesOf(g, m) ==
    {i \in 1..Len(Lines3) : \A k \in 1..3 : g[Lines3[i][k][1]][Lines3[i][k][2]] = m}

lineHasEmpty(g) ==
    \E i \in 1..Len(Lines3) : \E k \in 1..3 : g[Lines3[i][k][1]][Lines3[i][k][2]] = "E"

isFull(g) == \A y \in 1..3, x \in 1..3 : g[y][x] # "E"

\* C7: on every 3x3 grid getWinner returns a mark exactly when some line is
\* filled with one mark, and then the mark of the first such line in the
\* order rows, columns, diagonals; otherwise it returns "D" exactly when no
\* line has an empty cell, which is when the board is full, and "L" exactly
\* when a cell is empty; a full board without a filled line gives "D" and
\* has no child boards.
C7_GetWinner ==
    last.op = "getWinner" =>
        LET g == vBoard.state
            owned == linesOf(g, "X") \cup linesOf(g, "O")
        IN  /\ \A m \in Marks :
                  last.ret = m <=> (owned # {} /\ Min(owned) \in linesOf(g, m))
            /\ last.ret = "D" <=> (owned = {} /\ ~lineHasEmpty(g))
            /\ lineHasEmpty(g) <=> ~isFull(g)
            /\ last.ret = "L" <=> (owned = {} /\ ~isFull(g))
            /\ (isFull(g) /\ owned = {}) =>
                  (last.ret = "D" /\ getChildBoards[vBoard] = <<>>)

\* getWinner has returned "D" on a full board
C7_Witness ==
    /\ last.op = "getWinner"
    /\ last.ret = "D"
    /\ isFull(vBoard.state)

\* the cells of a 3x3 grid row by row
RowMajor3 ==
    << <<1, 1>>, <<1, 2>>, <<1, 3>>, <<2, 1>>, <<2, 2>>, <<2, 3>>,
       <<3, 1>>, <<3, 2>>, <<3, 3>> >>

emptyCells(g) == SelectSeq(RowMajor3, LAMBDA c : g[c[1]][c[2]] = "E")

moverMark(b) == IF b.isCompTurn THEN b.compSymbol ELSE humanSymbol(b)

\* C8: getChildBoards returns one position per empty cell, in row-major
\* order of the empty cells; the k-th has the mark of the side to move in
\* the k-th empty cell and isCompTurn flipped; so there are as many as empty
\* cells, and none when no cell is empty.
C8_ChildBoards ==
    last.op = "getChildBoards" =>
        LET e == emptyCells(vBoard.state)
        IN  /\ Len(last.ret) = Len(e)
            /\ Len(last.ret) = numEmpty(vBoard)
            /\ \A k \in 1..Len(e) :
                  /\ last.ret[k].state[e[k][1]][e[k][2]] = moverMark(vBoard)
                  /\ last.ret[k].isCompTurn = ~vBoard.isCompTurn
            /\ numEmpty(vBoard) = 0 => last.ret = <<>>

\* getChildBoards has returned several positions on the human's turn
C8_Witness ==
    /\ last.op = "getChildBoards"
    /\ ~vBoard.isCompTurn
    /\ Len(last.ret) >= 2
    /\ vBoard.state[1][1] # "E"

swapMark(m) == IF m = "X" THEN "O" ELSE IF m = "O" THEN "X" ELSE m

swapGrid(g) == [y \in 1..3 |-> [x \in 1..3 |-> swapMark(g[y][x])]]

\* C10: swapping the two marks on the whole grid swaps the marks in the
\* result of getWinner: "X" becomes "O", "O" becomes "X", and "D" and "L"
\* stay.
C10_SwapSymmetry ==
    last.op = "getWinner" =>
        getWinner[[vBoard EXCEPT !.state = swapGrid(vBoard.state)]] = swapMark(last.ret)

\* getWinner has returned "O"
C10_Witness ==
    /\ last.op = "getWinner"
    /\ last.ret = "O"

(***************************************************************************)
(* Properties of the scoring specification.                                *)
(***************************************************************************)
\* C1: on an ongoing position reached by alternating play, the value
\* getScore returned, from the cache or freshly computed and after any
\* earlier calls on the shared cache, is the maximum of getScore over the
\* child boards on the computer's turn and the minimum on the human's turn.
C1_Minimax ==
    (last.op = "getScore" /\ getWinner[vBoard] = "L") =>
        last.ret = IF vBoard.isCompTurn THEN Max(childScoresNow(vBoard))
                                        ELSE Min(childScoresNow(vBoard))

\* a getScore on an ongoing position on the computer's turn was answered
\* from the cache an earlier call had filled
C1_Witness ==
    /\ last.op = "getScore"
    /\ last.forced = 0
    /\ getWinner[vBoard] = "L"
    /\ vBoard.isCompTurn
    /\ Cardinality(childScoresNow(vBoard)) >= 2

\* C2: getNextBestBoardState returns no move when it is not the computer's
\* turn or the position is not ongoing; otherwise it returns a position,
\* the first of getChildBoards, in their order, whose getScore equals the
\* getScore of the receiver.
C2_NextBest ==
    last.op = "getNextBestBoardState" =>
        IF ~vBoard.isCompTurn \/ getWinner[vBoard] # "L"
        THEN last.ret = <<>>
        ELSE /\ Len(last.ret) = 1
             /\ \E k \in 1..Len(getChildBoards[vBoard]) :
                   /\ getChildBoards[vBoard][k] = last.ret[1]
                   /\ scoreNow(getChildBoards[vBoard][k]) = scoreNow(vBoard)
                   /\ \A j \in 1..(k - 1) :
                         scoreNow(getChildBoards[vBoard][j]) # scoreNow(vBoard)

\* getNextBestBoardState has returned a child board that is not the first
C2_Witness ==
    /\ last.op = "getNextBestBoardState"
    /\ last.ret # <<>>
    /\ last.ret[1] # getChildBoards[vBoard][1]

exampleGrid == <<<<"X", "E", "E">>, <<"E", "X", "E">>, <<"O", "O", "E">>>>

exampleWon == <<<<"X", "E", "E">>, <<"E", "X", "E">>, <<"O", "O", "X">>>>

\* C3: on the computer's turn on an ongoing position with a child board the
\* computer has won, getNextBestBoardState returns a child board the
\* computer has won; on the example grid with "X" to move it returns the
\* grid with "X" at row 2, column 2.
C3_ImmediateWin ==
    (/\ last.op = "getNextBestBoardState"
     /\ vBoard.isCompTurn
     /\ getWinner[vBoard] = "L"
     /\ \E k \in 1..Len(getChildBoards[vBoard]) :
           getWinner[getChildBoards[vBoard][k]] = vBoard.compSymbol)
    => /\ last.ret # <<>>
       /\ getWinner[last.ret[1]] = vBoard.compSymbol
       /\ vBoard.state = exampleGrid => last.ret[1].state = exampleWon

\* C4 as stated: on a terminal position getScore is exactly 100, -100 or 0
\* by outcome, and the position has no child boards.
C4_TerminalExact ==
    (last.op = "getScore" /\ getWinner[vBoard] # "L") =>
        /\ Len(getChildBoards[vBoard]) = 0
        /\ getWinner[vBoard] = vBoard.compSymbol => last.ret = 100
        /\ getWinner[vBoard] = humanSymbol(vBoard) => last.ret = -100
        /\ getWinner[vBoard] = "D" => last.ret = 0

\* C4 amended: on a terminal position with k empty cells getChildBoards
\* enumerates k child boards and getScore is 100 - k when the computer has
\* won, -100 + k when the human has won and 0 on a draw, where k is 0; the
\* example position won at row 2, column 2 scores 96.
C4_TerminalScore ==
    (last.op = "getScore" /\ getWinner[vBoard] # "L") =>
        /\ Len(getChildBoards[vBoard]) = numEmpty(vBoard)
        /\ getWinner[vBoard] = vBoard.compSymbol => last.ret = 100 - numEmpty(vBoard)
        /\ getWinner[vBoard] = humanSymbol(vBoard) => last.ret = -100 + numEmpty(vBoard)
        /\ getWinner[vBoard] = "D" => (last.ret = 0 /\ numEmpty(vBoard) = 0)
        /\ vBoard.state = exampleWon => last.ret = 96

\* getScore has returned on the example position won at row 2, column 2
C4_Witness ==
    /\ last.op = "getScore"
    /\ vBoard.state = exampleWon
    /\ getWinner[vBoard] = vBoard.compSymbol
    /\ numEmpty(vBoard) = 4

\* C5: a getScore that follows a getScore on the same position returns the
\* value the first returned and does not run forceGetScore.
C5_SecondCallHits ==
    [][(last.op = "getScore" /\ last'.op = "getScore") =>
          (last'.ret = last.ret /\ last'.forced = 0)]_vars

(***************************************************************************)
(* Properties of the page.                                                 *)
(***************************************************************************)
countOf(g, m) == Cardinality({c \in (1..3) \X (1..3) : g[c[1]][c[2]] = m})

\* C6: with the computer, "X", moving first on the empty board,
\* getNextBestBoardState returns a position with exactly one "X" and no
\* other mark; and a game in which the computer always plays
\* getNextBestBoardState and the human always moves to a child board of
\* minimal getScore ends in a draw.
C6_OptimalPlayDraws ==
    /\ (first /\ last.op = "new HTMLBoard") =>
          /\ last.ret # <<>>
          /\ countOf(last.ret[1].state, "X") = 1
          /\ countOf(last.ret[1].state, "O") = 0
    /\ (first /\ optimal /\ pc = "ready" /\ getWinner[vBoard] # "L") =>
          getWinner[vBoard] = "D"

\* a game the computer started and the human played with moves of minimal
\* score has ended
C6_Witness ==
    /\ first
    /\ optimal
    /\ last.op = "onClick"
    /\ last.accepted
    /\ getWinner[vBoard] # "L"

\* q is p with mark in one cell that is empty in p, all other cells equal
oneCellMove(p, q, mark) ==
    /\ q.compSymbol = p.compSymbol
    /\ \E c \in (1..3) \X (1..3) :
          /\ p.state[c[1]][c[2]] = "E"
          /\ q.state[c[1]][c[2]] = mark
          /\ \A d \in (1..3) \X (1..3) : d # c => q.state[d[1]][d[2]] = p.state[d[1]][d[2]]

\* C9: an accepted click leaves the position it was applied to as it was,
\* and so do the getScore, getNextBestBoardState and getChildBoards calls
\* of the handler the position they are called on; the position the click
\* produces differs from the clicked one in exactly one cell, empty before
\* and holding the human's mark after, and the computer's reply differs
\* from that in exactly one cell, empty before and holding the computer's
\* mark after.
C9_MovesDoNotMutate ==
    [][(last'.op = "onClick" /\ last'.accepted) =>
          /\ last'.this = vBoard
          /\ last'.movedAfter = last'.moved
          /\ oneCellMove(vBoard, last'.moved, humanSymbol(vBoard))
          /\ last'.ret # <<>> =>
                oneCellMove(last'.moved, last'.ret[1], vBoard.compSymbol)]_vars

\* a click was accepted and answered by the computer
C9_Witness ==
    /\ last.op = "onClick"
    /\ last.accepted
    /\ last.ret # <<>>
    /\ vBoard = last.ret[1]

(***************************************************************************)
(* Properties of the cache.                                                *)
(***************************************************************************)
symbolOf(code) == IF code = 0 THEN "E" ELSE IF code = 1 THEN "X" ELSE "O"

\* the row whose row string has the slot s
rowOfSlot(s) ==
    <<symbolOf((s - 1) % 3), symbolOf(((s - 1) \div 3) % 3), symbolOf(((s - 1) \div 9) % 3)>>

gridOfPath(k) == <<rowOfSlot(k[1]), rowOfSlot(k[2]), rowOfSlot(k[3])>>

\* the position of a session that holds grid g: the side to move follows
\* from the number of marks and from who moved first
positionOf(g) ==
    Board(g, vBoard.compSymbol,
          IF (countOf(g, "X") + countOf(g, "O")) % 2 = 0 THEN first ELSE ~first)

\* the positions the side to move reaches by marking one empty cell
successors(b) ==
    {[b EXCEPT !.state[c[1]][c[2]] = moverMark(b), !.isCompTurn = ~b.isCompTurn] :
        c \in {c \in (1..3) \X (1..3) : b.state[c[1]][c[2]] = "E"}}

\* the minimax score of a position, computed without any cache
RECURSIVE minimax(_)
minimax(b) ==
    LET winner == getWinner[b]
        scores == {minimax(k) : k \in successors(b)}
    IN  IF winner = b.compSymbol THEN 100 - numEmpty(b)
        ELSE IF winner = humanSymbol(b) THEN -100 + numEmpty(b)
        ELSE IF winner = "D" THEN numEmpty(b)
        ELSE IF b.isCompTurn THEN Max(scores) ELSE Min(scores)

\* the properties of the cache object whose value differs between c and d
changedPaths(c, d) ==
    UNION {UNION {{<<i, j, k>> : k \in {k \in DOMAIN c[i][j] : c[i][j][k] # d[i][j][k]}} :
                  j \in {j \in DOMAIN c[i] : c[i][j] # d[i][j]}} :
           i \in {i \in DOMAIN c : c[i] # d[i]}}

\* C11: in a session every step leaves each property of the cache that was
\* defined as it was, and each property it defines holds the minimax score
\* of the grid its key encodes with the side to move its number of marks
\* determines; so every cache entry holds the true score of its grid, is
\* never removed and never changes.
C11_CacheAdditive ==
    [][\A k \in changedPaths(cache, cache') :
          /\ cacheGet(cache, k) = <<>>
          /\ cacheGet(cache', k) = <<minimax(positionOf(gridOfPath(k)))>>]_vars

\* a getScore has left the entry 0 for an ongoing position in the cache,
\* next to an entry of a child board that is not 0
C11_Witness ==
    /\ last.op = "getScore"
    /\ last.forced > 0
    /\ last.ret = 0
    /\ getWinner[vBoard] = "L"
    /\ cacheGet(cache, cachePath[vBoard]) = <<0>>
    /\ \E i \in 1..Len(getChildBoards[vBoard]) :
          cacheGet(cache, cachePath[getChildBoards[vBoard][i]]) \notin {<<>>, <<0>>}

(***************************************************************************)
(* Properties of the terminal scores.                                      *)
(***************************************************************************)
\* the grids of the session's positions that mark m has won with its last
\* move: m fills a line, the other mark fills none, and the numbers of
\* marks are those of alternating play ending with a move of m
wonGrids(m) ==
    LET other == swapMark(m)
        mFirst == (m = vBoard.compSymbol) <=> first
    IN  {g \in AllGrids :
            /\ linesOf(g, m) # {}
            /\ linesOf(g, other) = {}
            /\ countOf(g, m) = countOf(g, other) + (IF mFirst THEN 1 ELSE 0)}

\* C12: of two positions the computer has won, the one with more empty
\* cells has the strictly higher getScore; of two positions the human has
\* won, the one with fewer empty cells has the strictly higher getScore.
C12_FasterWinsScoreHigher ==
    (last.op = "getScore" /\ getWinner[vBoard] \in Marks) =>
        \A g \in wonGrids(getWinner[vBoard]) :
            LET q == positionOf(g)
            IN  /\ (getWinner[vBoard] = vBoard.compSymbol /\ numEmpty(q) > numEmpty(vBoard))
                      => scoreNow(q) > last.ret
                /\ (getWinner[vBoard] = humanSymbol(vBoard) /\ numEmpty(q) < numEmpty(vBoard))
                      => scoreNow(q) > last.ret

(***************************************************************************)
(* Further properties of the page.                                         *)
(***************************************************************************)
\* C13: a click at (x, y) is accepted exactly when the cell is empty, it is
\* the human's turn and the game is ongoing; a click for which one of the
\* three fails leaves the position of the page as it was.
C13_ClickAccepted ==
    [][pc = "ready" =>
          LET ok == /\ vBoard.state[last'.y][last'.x] = "E"
                    /\ ~vBoard.isCompTurn
                    /\ getWinner[vBoard] = "L"
          IN  /\ last'.accepted <=> ok
              /\ ~ok => vBoard' = vBoard]_vars

\* a click on an occupied cell was rejected while the human was to move in
\* an ongoing game
C13_Witness ==
    /\ last.op = "onClick"
    /\ ~last.accepted
    /\ vBoard.state[last.y][last.x] # "E"
    /\ ~vBoard.isCompTurn
    /\ getWinner[vBoard] = "L"

\* C14: whoever moves first, and whatever cells the human clicks, the
\* position of the page is never one the human has won.
C14_ComputerNeverLoses == getWinner[vBoard] # humanSymbol(vBoard)

\* a game the human started has ended, the board full or the computer the
\* winner
C14_Witness ==
    /\ ~first
    /\ last.op = "onClick"
    /\ last.accepted
    /\ getWinner[vBoard] \in {"D", vBoard.compSymbol}

\* C15: on a terminal position with k child boards getScore is 100 - k when
\* the computer has won, -100 + k when the human has won and 0 + k on a
\* draw, and k is 0 on every draw.
C15_TerminalFormula ==
    (last.op = "getScore" /\ getWinner[vBoard] # "L") =>
        LET k == Len(getChildBoards[vBoard])
            winner == getWinner[vBoard]
        IN  /\ k = Cardinality({c \in (1..3) \X (1..3) : vBoard.state[c[1]][c[2]] = "E"})
            /\ last.ret = CASE winner = vBoard.compSymbol -> 100 - k
                            [] winner = humanSymbol(vBoard) -> -100 + k
                            [] winner = "D" -> 0 + k
            /\ winner = "D" => k = 0

\* getScore has returned on a position the human has won with cells left
\* empty
C15_Witness ==
    /\ last.op = "getScore"
    /\ getWinner[vBoard] = humanSymbol(vBoard)
    /\ Len(getChildBoards[vBoard]) > 0

(***************************************************************************)
(* The game-theoretic value of a position: 1 when the computer can force a *)
(* win, -1 when the human can, 0 when best play by both sides is a draw.   *)
(***************************************************************************)
RECURSIVE value(_)
value(b) ==
    LET g == b.state
        values == {value(k) : k \in successors(b)}
    IN  IF linesOf(g, b.compSymbol) # {} THEN 1
        ELSE IF linesOf(g, humanSymbol(b)) # {} THEN -1
        ELSE IF isFull(g) THEN 0
        ELSE IF b.isCompTurn THEN Max(values) ELSE Min(values)

\* the key render predicts for a position of value v
outcomeKey(b, v) == IF v = 1 THEN b.compSymbol ELSE IF v = -1 THEN humanSymbol(b) ELSE "D"

\* C16: on a position reached by alternating play getScore is above 50
\* exactly when the computer can force a win, below -50 exactly when the
\* human can, and 0 exactly when best play is a draw; so the prediction
\* render derives from the score is the outcome of best play.
C16_ScoreSign ==
    last.op = "getScore" =>
        /\ last.ret > 50 <=> value(vBoard) = 1
        /\ last.ret < -50 <=> value(vBoard) = -1
        /\ last.ret = 0 <=> value(vBoard) = 0
        /\ predictedResult(vBoard, last.ret) = outcomeKey(vBoard, value(vBoard))

\* getScore has returned less than 100 on an ongoing position from which
\* the computer can force a win
C16_Witness ==
    /\ last.op = "getScore"
    /\ getWinner[vBoard] = "L"
    /\ last.ret > 50
    /\ last.ret < 100
    /\ value(vBoard) = 1

\* C17: once the constructor of HTMLBoard has run, and after every click
\* handler, the position of the page is terminal or has the human to move,
\* and the numbers of the two marks on its grid differ by at most one.
C17_ReplyInSameStep ==
    pc \in {"constructed", "ready"} =>
        /\ getWinner[vBoard] # "L" \/ ~vBoard.isCompTurn
        /\ countOf(vBoard.state, "X") - countOf(vBoard.state, "O") \in {-1, 0, 1}

\* the computer has answered the second click of an ongoing game
C17_Witness ==
    /\ pc = "ready"
    /\ last.op = "onClick"
    /\ last.accepted
    /\ last.ret # <<>>
    /\ getWinner[vBoard] = "L"
    /\ ~vBoard.isCompTurn
    /\ countOf(vBoard.state, humanSymbol(vBoard)) = 2

\* C18: along a game the score render reads for the position of the page
\* never decreases: the position an accepted click produces scores at least
\* what the position before the click scored, and the computer's reply
\* scores what the position it answers scored; the score is never below 0
\* and once above 50 it stays above 50.
C18_ScoreNeverDecreases ==
    [][/\ pc' = "ready" => last'.score >= 0
       /\ (pc = "ready" /\ last'.accepted) =>
             /\ last'.scoreMoved >= last.score
             /\ last'.score = last'.scoreMoved
             /\ last.score > 50 => last'.score > 50]_vars

\* the score is above 50 after an accepted click and the computer's reply,
\* in a game that is still ongoing
C18_Witness ==
    /\ last.op = "onClick"
    /\ last.accepted
    /\ last.ret # <<>>
    /\ last.score > 50
    /\ getWinner[vBoard] = "L"

marks(g) == countOf(g, "X") + countOf(g, "O")

\* C19: an accepted click strictly increases the number of marks; the human
\* never has more than 5 marks on the grid, and with 5 the game is over; a
\* human who keeps clicking empty cells reaches a position whose outcome is
\* terminal, the computer the winner or a draw; and once the outcome is
\* terminal no click changes the position, getNextBestBoardState returning
\* no move on it.
C19_GameTerminates ==
    /\ [][/\ (pc = "ready" /\ last'.accepted) => marks(vBoard'.state) > marks(vBoard.state)
          /\ countOf(vBoard'.state, humanSymbol(vBoard')) <= 5
          /\ (pc' = "ready" /\ countOf(vBoard'.state, humanSymbol(vBoard')) = 5)
                => getWinner[vBoard'] # "L"
          /\ getWinner[vBoard] # "L" => vBoard' = vBoard
          /\ (pc = "ready" /\ last'.accepted /\ getWinner[last'.moved] # "L")
                => (last'.ret = <<>> /\ vBoard' = last'.moved)]_vars
    /\ <>[](pc = "ready" /\ getWinner[vBoard] \in {"D", vBoard.compSymbol})

\* the fifth accepted click of a game has filled the board
C19_Witness ==
    /\ last.op = "onClick"
    /\ last.accepted
    /\ countOf(vBoard.state, humanSymbol(vBoard)) = 5
    /\ marks(vBoard.state) = 9
    /\ getWinner[vBoard] # "L"
====
